---- MODULE Spec2Model ----
(***************************************************************************)
(* Model of nsenso_scan.py: the NSensoScanner object (its findings         *)
(* buckets), the five check_* probes, the progress loop of main() that     *)
(* drives them, and the two report generators.                             *)
(*                                                                         *)
(* Text is modelled as a sequence of tokens (a command's stdout is the     *)
(* sequence of the words it printed, the empty sequence being the empty    *)
(* string), so that `"NOPASSWD" in out`, `if out:` and the f-strings that  *)
(* embed a command's output in a description keep their meaning.           *)
(* What the probes and the progress bars print on the console while the    *)
(* scan runs is not modelled; `report` holds what generate_report prints.  *)
(***************************************************************************)
EXTENDS Integers, Sequences, FiniteSets, TLC

VARIABLES
    pc,           \* position of main(): "scan", "done" or "aborted" (uncaught exception)
    i,            \* loop variable of `for i in range(...)` in main()
    format,       \* args.format
    findings,     \* scanner.findings: severity -> list of finding dicts
    report,       \* what generate_report printed: a sequence of printed items
    invoked,      \* history: the probes main() has called, in call order
    lastOutcomes, \* history: what the commands of the latest probe call did
    emitted       \* history: the (severity, finding) pairs the probes appended

vars == <<pc, i, format, findings, report, invoked, lastOutcomes, emitted>>

----------------------------------------------------------------------------
(* Bounds *)

\* Width of a band of the loop of main(). The source has range(100) cut at
\* 20, 40, 60 and 80, five bands of 20 iterations, one band per probe; the
\* model keeps the loop, its five bands and their order, and narrows the
\* band so that every command outcome can be tried at every call.
PerProbe == 2

\* Values datetime.now() can take when the report is generated.
MaxTime == 2

----------------------------------------------------------------------------
(* Environment: what subprocess.run can do with a command *)

\* The commands the probes hand to run_command.
SudoList == "sudo -l 2>/dev/null"
FindSuid == "find / -perm -4000 -type f 2>/dev/null"
FindWorldWritable == "find / -type f -perm -o+w -exec ls -lh {} + 2>/dev/null"
ShadowEmpty == "cat /etc/shadow | awk -F: '($2==\"\"){print $1}'"
PsRoot == "ps aux | grep root | grep -v grep"
SysctlKernel == "sysctl -a | grep kernel"

\* What a command can write to stdout: nothing, or a few words.
Stdouts(command) ==
    CASE command = SudoList -> {<<>>, <<"ALL">>, <<"ALL", "NOPASSWD">>}
      [] command = FindSuid -> {<<>>, <<"/usr/bin/passwd">>, <<"/usr/bin/passwd", "/usr/bin/su">>}
      [] command = FindWorldWritable -> {<<>>, <<"/tmp/x">>}
      [] command = ShadowEmpty -> {<<>>, <<"guest">>}
      [] command = PsRoot -> {<<>>, <<"init">>}
      [] command = SysctlKernel -> {<<>>, <<"kernel.randomize_va_space">>}

\* subprocess.run either raises (the command could not be launched) or
\* returns a CompletedProcess with a return code and the captured stdout.
Outcomes(command) ==
    {[raised |-> TRUE]} \cup
    [raised : {FALSE}, returncode : {0, 1}, stdout : Stdouts(command)]

----------------------------------------------------------------------------
(* NSensoScanner *)

\* The buckets created in the opposite key order (a plausible slip).
SeverityOrderReversed == <<"info", "warning", "critical">>

\* __init__: the three buckets, created empty, in this key order.
SeverityOrder == <<"critical", "warning", "info">>

Severities == {"critical", "warning", "info"}

EmptyFindings == [critical |-> <<>>, warning |-> <<>>, info |-> <<>>]

\* run_command with the exception handler left out (a plausible slip):
\* a failed launch propagates to the caller.
RunCommandUncaught(outcome) ==
    IF outcome.raised
    THEN [raised |-> TRUE, value |-> <<>>]
    ELSE [raised |-> FALSE, value |-> outcome.stdout]

\* run_command returning the error text instead of "" (a plausible slip).
RunCommandErrorText(outcome) ==
    IF outcome.raised
    THEN [raised |-> FALSE, value |-> <<"Error executing command">>]
    ELSE [raised |-> FALSE, value |-> outcome.stdout]

\* run_command: result.stdout whatever the return code; "" when
\* subprocess.run raised. Never raises to its caller.
RunCommand(outcome) ==
    IF outcome.raised
    THEN [raised |-> FALSE, value |-> <<>>]
    ELSE [raised |-> FALSE, value |-> outcome.stdout]

\* `needle in text`
Contains(needle, text) == \E k \in 1..Len(text) : text[k] = needle

SudoMisconfig ==
    [type |-> "sudo_misconfig",
     description |-> <<"NOPASSWD sudo access detected">>,
     command |-> "sudo -l",
     remediation |-> "Review and restrict sudo access in /etc/sudoers"]

SuidBinaries(suid_binaries) ==
    [type |-> "suid_binaries",
     description |-> <<"Found SUID binaries:">> \o suid_binaries,
     command |-> "find / -perm -4000 -type f",
     remediation |-> "Review and remove unnecessary SUID permissions"]

WorldWritableFiles ==
    [type |-> "world_writable_files",
     description |-> <<"Found world-writable files">>,
     command |-> "find / -type f -perm -o+w",
     remediation |-> "Review and restrict file permissions"]

EmptyPasswords(empty_passwords) ==
    [type |-> "empty_passwords",
     description |-> <<"Users with empty passwords:">> \o empty_passwords,
     command |-> "cat /etc/shadow",
     remediation |-> "Set strong passwords for all users"]

RootProcesses ==
    [type |-> "root_processes",
     description |-> <<"Processes running as root">>,
     command |-> "ps aux | grep root",
     remediation |-> "Review and restrict root process execution"]

\* The kernel finding with its "type" left empty (a plausible slip).
KernelParametersUntyped ==
    [type |-> "",
     description |-> <<"Current kernel parameters">>,
     command |-> "sysctl -a | grep kernel",
     remediation |-> "Review and adjust kernel parameters for security"]

KernelParameters ==
    [type |-> "kernel_parameters",
     description |-> <<"Current kernel parameters">>,
     command |-> "sysctl -a | grep kernel",
     remediation |-> "Review and adjust kernel parameters for security"]

\* A probe call ends normally with the buckets it leaves, or raises
\* (raised = TRUE) with the buckets as they were when the exception left it.
Returned(f) == [raised |-> FALSE, findings |-> f]
Raised(f) == [raised |-> TRUE, findings |-> f]

check_sudo_misconfigurations(f, o1, o2) ==
    LET sudo_l_output == RunCommand(o1)
        f1 == IF Contains("NOPASSWD", sudo_l_output.value)
              THEN [f EXCEPT !.critical = Append(@, SudoMisconfig)]
              ELSE f
        suid_binaries == RunCommand(o2)
        f2 == IF suid_binaries.value # <<>>
              THEN [f1 EXCEPT !.warning = Append(@, SuidBinaries(suid_binaries.value))]
              ELSE f1
    IN  IF sudo_l_output.raised THEN Raised(f)
        ELSE IF suid_binaries.raised THEN Raised(f1)
        ELSE Returned(f2)

check_file_permissions(f, o) ==
    LET world_writable == RunCommand(o)
    IN  IF world_writable.raised THEN Raised(f)
        ELSE IF world_writable.value # <<>>
        THEN Returned([f EXCEPT !.critical = Append(@, WorldWritableFiles)])
        ELSE Returned(f)

check_user_security(f, o) ==
    LET empty_passwords == RunCommand(o)
    IN  IF empty_passwords.raised THEN Raised(f)
        ELSE IF empty_passwords.value # <<>>
        THEN Returned([f EXCEPT !.critical = Append(@, EmptyPasswords(empty_passwords.value))])
        ELSE Returned(f)

check_process_security(f, o) ==
    LET root_processes == RunCommand(o)
    IN  IF root_processes.raised THEN Raised(f)
        ELSE IF root_processes.value # <<>>
        THEN Returned([f EXCEPT !.warning = Append(@, RootProcesses)])
        ELSE Returned(f)

\* check_kernel_hardening filing its finding one bucket up (a plausible slip).
check_kernel_hardening_escalated(f, o) ==
    LET kernel_params == RunCommand(o)
    IN  IF kernel_params.raised THEN Raised(f)
        ELSE IF kernel_params.value # <<>>
        THEN Returned([f EXCEPT !.warning = Append(@, KernelParameters)])
        ELSE Returned(f)

check_kernel_hardening(f, o) ==
    LET kernel_params == RunCommand(o)
    IN  IF kernel_params.raised THEN Raised(f)
        ELSE IF kernel_params.value # <<>>
        THEN Returned([f EXCEPT !.info = Append(@, KernelParameters)])
        ELSE Returned(f)

----------------------------------------------------------------------------
(* Reports *)

\* _generate_json_report: the document handed to json.dumps.
JsonReport(f, now) ==
    <<[kind |-> "json", doc |-> [timestamp |-> now, findings |-> f]]>>

severity_colors == [critical |-> "red", warning |-> "yellow", info |-> "blue"]

\* console.print of the "<SEVERITY> FINDINGS:" line.
SectionLine(severity) ==
    [kind |-> "section", severity |-> severity, color |-> severity_colors[severity]]

\* console.print(Panel(...)) of one finding.
PanelOf(severity, finding) ==
    [kind |-> "panel", severity |-> severity, color |-> severity_colors[severity],
     type |-> finding.type, description |-> finding.description,
     command |-> finding.command, remediation |-> finding.remediation]

\* The loop body with the `if findings:` test left out (a plausible slip).
SectionOfUnguarded(severity, bucket) ==
    <<SectionLine(severity)>> \o
    [k \in 1..Len(bucket) |-> PanelOf(severity, bucket[k])]

\* Body of `for severity, findings in self.findings.items()`.
SectionOf(severity, bucket) ==
    IF bucket # <<>>
    THEN <<SectionLine(severity)>> \o
         [k \in 1..Len(bucket) |-> PanelOf(severity, bucket[k])]
    ELSE <<>>

RECURSIVE SectionsOf(_, _)
SectionsOf(f, order) ==
    IF order = <<>> THEN <<>>
    ELSE SectionOf(Head(order), f[Head(order)]) \o SectionsOf(f, Tail(order))

\* _generate_text_report: header, completion time, then the sections in the
\* order the dict yields its items (insertion order).
TextReport(f, now) ==
    <<[kind |-> "header"], [kind |-> "completed", at |-> now]>> \o
    SectionsOf(f, SeverityOrder)

\* generate_report
GenerateReportOutput(output_format, f, now) ==
    IF output_format = "json" THEN JsonReport(f, now) ELSE TextReport(f, now)

----------------------------------------------------------------------------
(* main *)

\* range(100): five bands of PerProbe iterations.
Iterations == 5 * PerProbe

\* The if/elif chain with the probes taken in turn instead of in bands
\* (a plausible slip).
BandRoundRobin(n) ==
    CASE n % 5 = 0 -> "sudo"
      [] n % 5 = 1 -> "files"
      [] n % 5 = 2 -> "users"
      [] n % 5 = 3 -> "processes"
      [] OTHER -> "kernel"

\* The if/elif chain of the loop body: which probe iteration n calls.
Band(n) ==
    IF n < PerProbe THEN "sudo"
    ELSE IF n < 2 * PerProbe THEN "files"
    ELSE IF n < 3 * PerProbe THEN "users"
    ELSE IF n < 4 * PerProbe THEN "processes"
    ELSE "kernel"

Probes == {"sudo", "files", "users", "processes", "kernel"}

\* The entries `new` holds beyond those of `old`, each with its bucket.
Appended(old, new) ==
    UNION {{<<s, new[s][k]>> : k \in (Len(old[s]) + 1)..Len(new[s])} : s \in Severities}

Init ==
    /\ pc = "scan"
    /\ i = 0
    /\ format \in {"text", "json"}
    /\ findings = EmptyFindings
    /\ report = <<>>
    /\ invoked = <<>>
    /\ lastOutcomes = <<>>
    /\ emitted = {}

\* One iteration of the loop: `probe` is called and leaves `result`; an
\* exception leaving the probe leaves main() too (nothing in main() catches
\* it). progress.update and time.sleep change nothing the scanner holds.
Iteration(probe, result, outcomes) ==
    /\ invoked' = Append(invoked, probe)
    /\ lastOutcomes' = outcomes
    /\ findings' = result.findings
    /\ emitted' = emitted \cup Appended(findings, result.findings)
    /\ IF result.raised
       THEN pc' = "aborted" /\ i' = i
       ELSE pc' = "scan" /\ i' = i + 1
    /\ UNCHANGED <<format, report>>

MainSudo ==
    /\ pc = "scan" /\ i < Iterations /\ Band(i) = "sudo"
    /\ \E o1 \in Outcomes(SudoList),
          o2 \in Outcomes(FindSuid) :
          Iteration("sudo", check_sudo_misconfigurations(findings, o1, o2), <<o1, o2>>)

MainFiles ==
    /\ pc = "scan" /\ i < Iterations /\ Band(i) = "files"
    /\ \E o \in Outcomes(FindWorldWritable) :
          Iteration("files", check_file_permissions(findings, o), <<o>>)

MainUsers ==
    /\ pc = "scan" /\ i < Iterations /\ Band(i) = "users"
    /\ \E o \in Outcomes(ShadowEmpty) :
          Iteration("users", check_user_security(findings, o), <<o>>)

MainProcesses ==
    /\ pc = "scan" /\ i < Iterations /\ Band(i) = "processes"
    /\ \E o \in Outcomes(PsRoot) :
          Iteration("processes", check_process_security(findings, o), <<o>>)

MainKernel ==
    /\ pc = "scan" /\ i < Iterations /\ Band(i) = "kernel"
    /\ \E o \in Outcomes(SysctlKernel) :
          Iteration("kernel", check_kernel_hardening(findings, o), <<o>>)

\* scanner.generate_report(args.format), after the loop.
GenerateReport ==
    /\ pc = "scan" /\ i = Iterations
    /\ \E now \in 1..MaxTime :
          report' = GenerateReportOutput(format, findings, now)
    /\ pc' = "done"
    /\ UNCHANGED <<i, format, findings, invoked, lastOutcomes, emitted>>

Next ==
    \/ MainSudo
    \/ MainFiles
    \/ MainUsers
    \/ MainProcesses
    \/ MainKernel
    \/ GenerateReport

Spec == Init /\ [][Next]_vars

----------------------------------------------------------------------------
(* Vocabulary of the properties *)

\* How many times main() has called probe p.
Count(p) == Cardinality({k \in DOMAIN invoked : invoked[k] = p})

\* The probe of the latest call.
LastProbe == invoked[Len(invoked)]

\* Place of a probe in the order sudo, files, users, processes, kernel.
ProbeRank(p) ==
    CASE p = "sudo" -> 1 [] p = "files" -> 2 [] p = "users" -> 3
      [] p = "processes" -> 4 [] p = "kernel" -> 5

\* Place of the probe that produces findings of type t.
TypeRank(t) ==
    CASE t = "sudo_misconfig" -> 1 [] t = "suid_binaries" -> 1
      [] t = "world_writable_files" -> 2 [] t = "empty_passwords" -> 3
      [] t = "root_processes" -> 4 [] t = "kernel_parameters" -> 5
      [] OTHER -> 0

\* Place of a severity in the order critical, warning, info.
SeverityRank(s) ==
    CASE s = "critical" -> 1 [] s = "warning" -> 2 [] s = "info" -> 3

\* The buckets the specification lets each probe append to.
Touches(p) ==
    CASE p = "sudo" -> {"critical", "warning"}
      [] p = "files" -> {"critical"}
      [] p = "users" -> {"critical"}
      [] p = "processes" -> {"warning"}
      [] p = "kernel" -> {"info"}

IsPrefix(a, b) == Len(a) <= Len(b) /\ \A k \in 1..Len(a) : a[k] = b[k]

\* The loop has run to its end: generate_report is being, or has been, called.
ScanComplete == pc \in {"scan", "done"} /\ i = Iterations

\* The places (bucket, index) of the findings held.
Places == UNION {{<<s, k>> : k \in 1..Len(findings[s])} : s \in Severities}

IsSection(item) == item.kind = "section"
IsPanel(item) == item.kind = "panel"

----------------------------------------------------------------------------
(* C1 *)

\* C1: in one scan each of the five probes is invoked exactly once before
\* generate_report is called.
C1_EachProbeInvokedOnce ==
    ScanComplete => \A p \in Probes : Count(p) = 1

----------------------------------------------------------------------------
(* C2 *)

\* C2: when generate_report is called the three buckets hold every finding
\* the probes emitted, each under the severity it was emitted with, and each
\* exactly once: no finding occurs at two places of the buckets.
C2_BucketsPartitionEmitted ==
    ScanComplete =>
        /\ \A e \in emitted : \E k \in 1..Len(findings[e[1]]) : findings[e[1]][k] = e[2]
        /\ \A pl \in Places : <<pl[1], findings[pl[1]][pl[2]]>> \in emitted
        /\ \A p1, p2 \in Places :
              p1 # p2 => findings[p1[1]][p1[2]] # findings[p2[1]][p2[2]]

----------------------------------------------------------------------------
(* C3 *)

AnyRaised(outcomes) == \E k \in DOMAIN outcomes : outcomes[k].raised
AllRaised(outcomes) == outcomes # <<>> /\ \A k \in DOMAIN outcomes : outcomes[k].raised

\* A probe call in which a command could not be launched returns normally
\* and the loop goes on; the finding of a command that could not be launched
\* is not added.
C3_Step ==
    (invoked' # invoked /\ AnyRaised(lastOutcomes')) =>
        /\ pc' = "scan" /\ i' = i + 1
        /\ AllRaised(lastOutcomes') => findings' = findings
        /\ (invoked'[Len(invoked')] = "sudo" /\ lastOutcomes'[1].raised)
              => findings'.critical = findings.critical
        /\ (invoked'[Len(invoked')] = "sudo" /\ lastOutcomes'[2].raised)
              => findings'.warning = findings.warning

\* Every step takes main() forward: a call moves the loop on by one
\* iteration, at most Iterations of them, and the report ends the scan.
C3_Progress ==
    \/ (pc' = "scan" /\ i' = i + 1 /\ i' <= Iterations)
    \/ (pc' = "done" /\ report' # <<>>)

\* C3: a probe whose command cannot be launched adds no finding, every later
\* probe is still invoked and generate_report is still reached: main() never
\* stops short of the report (until it is done a step can be taken, and each
\* step takes it forward), calls are never made out of order, and every
\* probe has been called when the loop ends.
C3_ProbeFailureDoesNotAbort ==
    /\ [][C3_Step /\ C3_Progress]_vars
    /\ [](pc = "done" \/ (pc = "scan" /\ ENABLED Next))
    /\ [](\A a, b \in DOMAIN invoked :
             a < b => ProbeRank(invoked[a]) <= ProbeRank(invoked[b]))
    /\ [](ScanComplete => \A q \in Probes : Count(q) >= 1)

\* The user-security probe (third) failed to launch its command in its last
\* call and the loop has moved on to the process-security probe.
C3_Witness ==
    /\ pc = "scan" /\ i = 3 * PerProbe
    /\ invoked # <<>> /\ LastProbe = "users"
    /\ AllRaised(lastOutcomes)

----------------------------------------------------------------------------
(* C4 *)

Launched(o) == ~o.raised
EmptyOutput(o) == Launched(o) /\ o.stdout = <<>>
ErrorStatus(o) == Launched(o) /\ o.returncode # 0

\* C4 as stated: a probe call all of whose commands failed (could not be
\* run, or exited with an error status whatever they wrote) or wrote nothing
\* appends no finding and raises nothing.
C4_FailedOrEmptyAddsNothing ==
    [][(invoked' # invoked /\
        \A k \in DOMAIN lastOutcomes' :
            \/ lastOutcomes'[k].raised
            \/ ErrorStatus(lastOutcomes'[k])
            \/ EmptyOutput(lastOutcomes'[k]))
       => (findings' = findings /\ pc' = "scan")]_vars

\* C4 amended: a probe call all of whose commands could not be launched or
\* wrote nothing to stdout appends no finding and raises nothing (the exit
\* status plays no part).
C4_UnlaunchedOrEmptyAddsNothing ==
    [][(invoked' # invoked /\
        \A k \in DOMAIN lastOutcomes' :
            \/ lastOutcomes'[k].raised
            \/ EmptyOutput(lastOutcomes'[k]))
       => (findings' = findings /\ pc' = "scan")]_vars

\* The sudo probe was just called: one command could not be launched, the
\* other exited with an error status and wrote nothing.
C4_Witness ==
    /\ invoked # <<>> /\ LastProbe = "sudo" /\ pc = "scan"
    /\ lastOutcomes[1].raised
    /\ EmptyOutput(lastOutcomes[2]) /\ ErrorStatus(lastOutcomes[2])

----------------------------------------------------------------------------
(* C5 *)

\* Passwordless sudo was detected and nothing else was.
OnlySudoDetected ==
    /\ findings.critical # <<>>
    /\ \A pl \in Places : findings[pl[1]][pl[2]].type = "sudo_misconfig"

\* C5: when passwordless sudo is detected and nothing else, the scan ends
\* with exactly one critical finding, of type sudo_misconfig, no warning and
\* no info finding, and the text report has one CRITICAL FINDINGS section
\* with one entry.
C5_OneSudoMisconfig ==
    (pc = "done" /\ OnlySudoDetected) =>
        /\ Len(findings.critical) = 1
        /\ findings.critical[1].type = "sudo_misconfig"
        /\ findings.warning = <<>> /\ findings.info = <<>>
        /\ format = "text" =>
              /\ Len(SelectSeq(report, IsSection)) = 1
              /\ SelectSeq(report, IsSection)[1].severity = "critical"
              /\ Len(SelectSeq(report, IsPanel)) = 1

----------------------------------------------------------------------------
(* C6 *)

\* C6: the text report prints the section line of a severity exactly when
\* that severity's bucket is not empty, after the header.
C6_SectionIffNonEmpty ==
    (pc = "done" /\ format = "text") =>
        /\ report[1].kind = "header"
        /\ \A s \in Severities :
              (\E k \in DOMAIN report : IsSection(report[k]) /\ report[k].severity = s)
                  <=> findings[s] # <<>>
        /\ findings = EmptyFindings => \A k \in DOMAIN report : ~IsSection(report[k])

\* A text report over buckets of which one is empty and two are not.
C6_Witness ==
    /\ pc = "done" /\ format = "text"
    /\ findings.critical # <<>> /\ findings.warning = <<>> /\ findings.info # <<>>

\* A text report over three empty buckets.
C6_WitnessEmpty ==
    pc = "done" /\ format = "text" /\ findings = EmptyFindings

----------------------------------------------------------------------------
(* C7 *)

\* The findings of bucket s, each with s.
Tagged(s) == [k \in 1..Len(findings[s]) |-> <<s, findings[s][k]>>]

\* C7: the text report emits the sections in the order critical, warning,
\* info, and in each section one panel per finding in bucket order.
C7_SectionsAndPanelsInOrder ==
    (pc = "done" /\ format = "text") =>
        LET panels == SelectSeq(report, IsPanel)
            all == Tagged("critical") \o Tagged("warning") \o Tagged("info")
        IN  /\ Len(panels) = Len(all)
            /\ \A k \in 1..Len(all) :
                  /\ panels[k].severity = all[k][1]
                  /\ panels[k].type = all[k][2].type
                  /\ panels[k].description = all[k][2].description
                  /\ panels[k].command = all[k][2].command
                  /\ panels[k].remediation = all[k][2].remediation
            /\ \A a, b \in DOMAIN report :
                  (a < b /\ IsSection(report[a]) /\ IsSection(report[b]))
                      => SeverityRank(report[a].severity) < SeverityRank(report[b].severity)
            /\ \A k \in DOMAIN report :
                  IsPanel(report[k]) =>
                      \E j \in 1..(k - 1) :
                          /\ IsSection(report[j])
                          /\ report[j].severity = report[k].severity
                          /\ \A m \in (j + 1)..(k - 1) : IsPanel(report[m])

\* A text report over three non-empty buckets, one of them holding two
\* different findings.
C7_Witness ==
    /\ pc = "done" /\ format = "text"
    /\ findings.critical # <<>> /\ findings.info # <<>>
    /\ Len(findings.warning) >= 2
    /\ findings.warning[1] # findings.warning[Len(findings.warning)]

----------------------------------------------------------------------------
(* C8 *)

FindingKeys == {"type", "description", "command", "remediation"}

IsList(x) == DOMAIN x = 1..Len(x)

SchemaOK(doc) ==
    /\ DOMAIN doc = {"timestamp", "findings"}
    /\ DOMAIN doc.findings = {"critical", "warning", "info"}
    /\ \A s \in {"critical", "warning", "info"} :
          /\ IsList(doc.findings[s])
          /\ \A k \in 1..Len(doc.findings[s]) :
                /\ DOMAIN doc.findings[s][k] = FindingKeys
                /\ doc.findings[s][k].type # ""
                /\ doc.findings[s][k].remediation # ""

\* C8: after any sequence of probe calls the JSON document has exactly the
\* keys timestamp and findings, findings exactly the three severity keys,
\* each a list of findings with exactly the four finding keys and non-empty
\* type and remediation; with nothing emitted the three lists are empty.
C8_JsonSchema ==
    /\ \A now \in 1..MaxTime :
          LET out == JsonReport(findings, now)
          IN  /\ Len(out) = 1
              /\ SchemaOK(out[1].doc)
              /\ emitted = {} =>
                    \A s \in Severities : out[1].doc.findings[s] = <<>>
    /\ (pc = "done" /\ format = "json") =>
          /\ Len(report) = 1
          /\ SchemaOK(report[1].doc)

\* A JSON report printed over buckets holding findings of all severities.
C8_Witness ==
    /\ pc = "done" /\ format = "json"
    /\ report[1].doc.findings = findings
    /\ \A s \in Severities : findings[s] # <<>>

----------------------------------------------------------------------------
(* C9 *)

\* C9: the probes are called in the order sudo, files, users, processes,
\* kernel, no earlier probe being called again after a later one, so within
\* each bucket the findings stand in probe order.
C9_ProbesInRegistryOrder ==
    /\ \A a, b \in DOMAIN invoked :
          a < b => ProbeRank(invoked[a]) <= ProbeRank(invoked[b])
    /\ \A s \in Severities : \A a, b \in 1..Len(findings[s]) :
          a < b => TypeRank(findings[s][a].type) <= TypeRank(findings[s][b].type)
    /\ ScanComplete => \A p \in Probes : Count(p) >= 1

\* All probes were called and found something: critical holds findings of
\* three probes, warning of two.
C9_Witness ==
    /\ ScanComplete
    /\ {findings.critical[k].type : k \in 1..Len(findings.critical)}
          = {"sudo_misconfig", "world_writable_files", "empty_passwords"}
    /\ {findings.warning[k].type : k \in 1..Len(findings.warning)}
          = {"suid_binaries", "root_processes"}

----------------------------------------------------------------------------
(* C10 *)

\* C10: a probe call only appends, and only to the buckets of the severities
\* assigned to that probe; every other bucket and every finding already held
\* is left as it was.
C10_ProbeFrame ==
    [][invoked' # invoked =>
        \A s \in Severities :
            /\ IsPrefix(findings[s], findings'[s])
            /\ s \notin Touches(invoked'[Len(invoked')]) => findings'[s] = findings[s]]_vars

\* The kernel probe was just called and added its info finding to buckets
\* that already held critical and warning findings.
C10_Witness ==
    /\ invoked # <<>> /\ LastProbe = "kernel"
    /\ findings.info # <<>>
    /\ findings.critical # <<>> /\ findings.warning # <<>>

====
